---------------------------- MODULE Spec2Model ----------------------------
(***************************************************************************)
(* Model of embedded/esp32/esp32-sketch/embed_wasm.py, the PlatformIO/SCons *)
(* extra script that embeds pigeonhub_client.wasm into the ESP32 firmware.  *)
(*                                                                         *)
(* Strings are sequences of tokens.  A path token is one character ("/" or *)
(* a letter) or the artifact's file name; the literal parts of flags and   *)
(* log lines are one token each.  String concatenation is \o.              *)
(* Paths follow the POSIX rules (posixpath.join, and a file system that    *)
(* treats a run of separators as one separator).                           *)
(***************************************************************************)
EXTENDS Naturals, Sequences, FiniteSets

\* ----------------------------------------------------------------- bounds
\* Number of times the build tool runs the script on one configuration object.
MaxRuns == 2
\* Number of artifact files that exist at the same time.
MaxFiles == 2
\* Longest project root (in characters) of the path-join specification.
MaxRootLen == 4

\* ------------------------------------------------------------ string parts
Sep == "/"
\* line 8: the hard-coded artifact file name
FileName == <<"pigeonhub_client.wasm">>
\* lines 16-17: the two linker flags
EmbedDirective == <<"-Wl,--embedded-file">>
WlPrefix == <<"-Wl,">>
\* line 23: -DWASM_BINARY_PATH=\"...\" ; \\" in the source is backslash, quote
DefinePrefix == <<"-DWASM_BINARY_PATH=">>
EscQuote == <<"\\\"">>
\* lines 12, 27, 28: the texts of the three diagnostics
InfoPrefix == <<"Embedding WASM binary: ">>
WarnPrefix == <<"WARNING: WASM file not found at ">>
NoWasmLine == <<"PigeonHub will compile but WASM functionality will not work!">>

\* ------------------------------------------------------------------ inputs
\* Project roots the build tool hands to the script ($PROJECT_DIR): absolute
\* and relative, with and without a trailing separator.  "/p" and "/p/" name
\* the same directory by different strings.
Roots ==
  { <<"/">>, <<"/", "p">>, <<"/", "p", "/">>, <<"p">> }

\* Characters of the project roots of the path-join specification.
Alphabet == {"/", "p", "q"}

\* All non-empty strings over Alphabet of at most n characters.
RECURSIVE StringsUpTo(_)
StringsUpTo(n) ==
  IF n = 0 THEN {}
  ELSE LET shorter == StringsUpTo(n - 1)
       IN  shorter \cup {<<c>> : c \in Alphabet}
                   \cup {s \o <<c>> : s \in shorter, c \in Alphabet}

AllRoots == StringsUpTo(MaxRootLen)

\* What the file system does with a path: a run of separators is one separator.
RECURSIVE Normalize(_)
Normalize(p) ==
  IF Len(p) < 2 THEN p
  ELSE IF p[1] = Sep /\ p[2] = Sep THEN Normalize(Tail(p))
  ELSE <<p[1]>> \o Normalize(Tail(p))

\* The file <root>/pigeonhub_client.wasm, as the file system names it.
ArtifactOf(root) == Normalize(root \o <<Sep>> \o FileName)

Files == {ArtifactOf(r) : r \in Roots}

\* Flags other scripts and platformio.ini put in the two collections before the
\* script runs, among them the very flags the script adds.
PreLink ==
  { <<>>,
    << <<"-Wl,--gc-sections">> >>,
    << EmbedDirective, WlPrefix \o <<"/", "p", "/">> \o FileName >> }
PreBuild ==
  { <<>>,
    << <<"-Os">> >>,
    << DefinePrefix \o EscQuote \o <<"/", "p", "/">> \o FileName \o EscQuote >> }

\* --------------------------------------------------------------- the state
VARIABLES
  pc,           \* position of the script: "idle" between runs, else the next line
  PROJECT_DIR,  \* env["PROJECT_DIR"], set by the build tool
  LINKFLAGS,    \* env["LINKFLAGS"]: sequence of flags
  BUILD_FLAGS,  \* env["BUILD_FLAGS"]: sequence of flags
  project_dir,  \* script global, line 5
  wasm_file,    \* script global, line 8
  stdout,       \* lines printed by the current run
  fs,           \* paths that exist (normalized)
  fsops,        \* file-system calls made by the current run
  hist          \* one record per run: its root, the flags it started with, the test's result

vars ==
  <<pc, PROJECT_DIR, LINKFLAGS, BUILD_FLAGS, project_dir, wasm_file,
    stdout, fs, fsops, hist>>

\* A script global before its first assignment.
Unbound == <<>>

\* ------------------------------------------------------- library functions
\* Plain concatenation with a separator instead of os.path.join.
JoinConcat(a, b) == a \o <<Sep>> \o b

\* posixpath.join(a, b) for two components (line 8)
Join(a, b) ==
  IF Len(b) > 0 /\ b[1] = Sep THEN b
  ELSE IF Len(a) = 0 \/ a[Len(a)] = Sep THEN a \o b
  ELSE a \o <<Sep>> \o b

\* The test made on something that is always there (the project directory).
ExistsAlways(path) == path = path

\* os.path.exists(path) (line 11): one stat call, no error propagates
Exists(path) == Normalize(path) \in fs

\* env.AppendUnique: entries the list already holds are not added again.
AppendUnique(old, new) ==
  old \o SelectSeq(new, LAMBDA x : \A i \in DOMAIN old : old[i] # x)

\* env.Prepend: the new entries go in front.
Prepend(old, new) == new \o old

\* env.Append(KEY=[...]) on a list value: the new entries go at the end
Append_(old, new) == old \o new

\* The record of the current run.
Cur == hist[Len(hist)]

SetFound(h, b) == [h EXCEPT ![Len(h)].found = b]


\* f"-Wl,{wasm_file}" (line 17)
LinkPathFlag(path) == WlPrefix \o path

\* The define with plain quotes, which the shell would strip.
DefineFlagUnescaped(path) == DefinePrefix \o <<"\"">> \o path \o <<"\"">>

\* f'-DWASM_BINARY_PATH=\\"{wasm_file}\\"' (line 23)
DefineFlag(path) == DefinePrefix \o EscQuote \o path \o EscQuote

\* f"Embedding WASM binary: {wasm_file}" (line 12)
InfoLine(path) == InfoPrefix \o path

\* f"WARNING: WASM file not found at {wasm_file}" (line 27)
WarnLine(path) == WarnPrefix \o path

\* -------------------------------------------------------------------- Init
Init ==
  /\ pc = "idle"
  /\ PROJECT_DIR \in Roots
  /\ LINKFLAGS \in PreLink
  /\ BUILD_FLAGS \in PreBuild
  /\ project_dir = Unbound
  /\ wasm_file = Unbound
  /\ stdout = <<>>
  /\ fs \in {F \in SUBSET Files : Cardinality(F) <= MaxFiles}
  /\ fsops = <<>>
  /\ hist = <<>>

\* ------------------------------------------------------------- environment
\* Between runs the artifact is built into a project directory ...
CreateFile(f) ==
  /\ pc = "idle"
  /\ f \notin fs
  /\ Cardinality(fs) < MaxFiles
  /\ fs' = fs \cup {f}
  /\ UNCHANGED <<pc, PROJECT_DIR, LINKFLAGS, BUILD_FLAGS, project_dir,
                 wasm_file, stdout, fsops, hist>>

\* ... or removed from it.
DeleteFile(f) ==
  /\ pc = "idle"
  /\ f \in fs
  /\ fs' = fs \ {f}
  /\ UNCHANGED <<pc, PROJECT_DIR, LINKFLAGS, BUILD_FLAGS, project_dir,
                 wasm_file, stdout, fsops, hist>>

\* The build tool runs the script (lines 1-2) on the configuration object, whose
\* PROJECT_DIR is the root of the project being built.
Start(root) ==
  /\ pc = "idle"
  /\ Len(hist) < MaxRuns
  /\ PROJECT_DIR' = root
  /\ hist' = Append(hist, [root |-> root, found |-> FALSE,
                           link |-> LINKFLAGS, build |-> BUILD_FLAGS])
  /\ stdout' = <<>>
  /\ fsops' = <<>>
  /\ pc' = "subst"
  /\ UNCHANGED <<LINKFLAGS, BUILD_FLAGS, project_dir, wasm_file, fs>>

\* --------------------------------------------------------------- the script
\* line 5: project_dir = env.subst("$PROJECT_DIR")
Subst ==
  /\ pc = "subst"
  /\ project_dir' = PROJECT_DIR
  /\ pc' = "join"
  /\ UNCHANGED <<PROJECT_DIR, LINKFLAGS, BUILD_FLAGS, wasm_file, stdout, fs,
                 fsops, hist>>

\* A cache of the path instead of line 8.
JoinPathCached ==
  /\ pc = "join"
  /\ wasm_file' = IF wasm_file # Unbound THEN wasm_file
                  ELSE Join(project_dir, FileName)
  /\ pc' = "test"
  /\ UNCHANGED <<PROJECT_DIR, LINKFLAGS, BUILD_FLAGS, project_dir, stdout, fs,
                 fsops, hist>>

\* line 8: wasm_file = os.path.join(project_dir, "pigeonhub_client.wasm")
JoinPath ==
  /\ pc = "join"
  /\ wasm_file' = Join(project_dir, FileName)
  /\ pc' = "test"
  /\ UNCHANGED <<PROJECT_DIR, LINKFLAGS, BUILD_FLAGS, project_dir, stdout, fs,
                 fsops, hist>>

\* The test done by opening the file for appending, which creates it.
TestByOpen ==
  /\ pc = "test"
  /\ fsops' = Append(fsops, [op |-> "open", path |-> wasm_file])
  /\ fs' = fs \cup {Normalize(wasm_file)}
  /\ hist' = SetFound(hist, TRUE)
  /\ pc' = "print"
  /\ UNCHANGED <<PROJECT_DIR, LINKFLAGS, BUILD_FLAGS, project_dir, wasm_file,
                 stdout>>

\* line 11: if os.path.exists(wasm_file):
Test ==
  /\ pc = "test"
  /\ fsops' = Append(fsops, [op |-> "stat", path |-> wasm_file])
  /\ hist' = SetFound(hist, Exists(wasm_file))
  /\ pc' = IF Exists(wasm_file) THEN "print" ELSE "warn"
  /\ UNCHANGED <<PROJECT_DIR, LINKFLAGS, BUILD_FLAGS, project_dir, wasm_file,
                 stdout, fs>>

\* line 12: print(f"Embedding WASM binary: {wasm_file}")
PrintFound ==
  /\ pc = "print"
  /\ stdout' = Append(stdout, InfoLine(wasm_file))
  /\ pc' = "link"
  /\ UNCHANGED <<PROJECT_DIR, LINKFLAGS, BUILD_FLAGS, project_dir, wasm_file,
                 fs, fsops, hist>>

\* lines 14-19: env.Append(LINKFLAGS=["-Wl,--embedded-file", f"-Wl,{wasm_file}"])
AppendLink ==
  /\ pc = "link"
  /\ LINKFLAGS' = Append_(LINKFLAGS, <<EmbedDirective, LinkPathFlag(wasm_file)>>)
  /\ pc' = "build"
  /\ UNCHANGED <<PROJECT_DIR, BUILD_FLAGS, project_dir, wasm_file, stdout, fs,
                 fsops, hist>>

\* The second Append left out.
AppendBuildSkipped ==
  /\ pc = "build"
  /\ pc' = "done"
  /\ UNCHANGED <<PROJECT_DIR, LINKFLAGS, BUILD_FLAGS, project_dir, wasm_file,
                 stdout, fs, fsops, hist>>

\* lines 21-25: env.Append(BUILD_FLAGS=[f'-DWASM_BINARY_PATH=\\"{wasm_file}\\"'])
AppendBuild ==
  /\ pc = "build"
  /\ BUILD_FLAGS' = Append_(BUILD_FLAGS, <<DefineFlag(wasm_file)>>)
  /\ pc' = "done"
  /\ UNCHANGED <<PROJECT_DIR, LINKFLAGS, project_dir, wasm_file, stdout, fs,
                 fsops, hist>>

\* line 27: print(f"WARNING: WASM file not found at {wasm_file}")
Warn1 ==
  /\ pc = "warn"
  /\ stdout' = Append(stdout, WarnLine(wasm_file))
  /\ pc' = "warn2"
  /\ UNCHANGED <<PROJECT_DIR, LINKFLAGS, BUILD_FLAGS, project_dir, wasm_file,
                 fs, fsops, hist>>

\* The missing file made fatal: the script raises instead of printing line 28.
Warn2Raises ==
  /\ pc = "warn2"
  /\ pc' = "raised"
  /\ UNCHANGED <<PROJECT_DIR, LINKFLAGS, BUILD_FLAGS, project_dir, wasm_file,
                 stdout, fs, fsops, hist>>

\* The second line of the warning left out.
Warn2Silent ==
  /\ pc = "warn2"
  /\ pc' = "done"
  /\ UNCHANGED <<PROJECT_DIR, LINKFLAGS, BUILD_FLAGS, project_dir, wasm_file,
                 stdout, fs, fsops, hist>>

\* line 28: print("PigeonHub will compile but WASM functionality will not work!")
Warn2 ==
  /\ pc = "warn2"
  /\ stdout' = Append(stdout, NoWasmLine)
  /\ pc' = "done"
  /\ UNCHANGED <<PROJECT_DIR, LINKFLAGS, BUILD_FLAGS, project_dir, wasm_file,
                 fs, fsops, hist>>

\* End of the file: the script returns to the build tool; its globals stay bound.
Return ==
  /\ pc = "done"
  /\ pc' = "idle"
  /\ UNCHANGED <<PROJECT_DIR, LINKFLAGS, BUILD_FLAGS, project_dir, wasm_file,
                 stdout, fs, fsops, hist>>

\* One step of the script itself.
Script ==
  \/ Subst
  \/ JoinPath
  \/ Test
  \/ PrintFound
  \/ AppendLink
  \/ AppendBuild
  \/ Warn1
  \/ Warn2
  \/ Return

Next ==
  \/ \E f \in Files : CreateFile(f)
  \/ \E f \in Files : DeleteFile(f)
  \/ \E root \in Roots : Start(root)
  \/ Script

Spec == Init /\ [][Next]_vars

\* A run, once started, is not suspended for ever: the script is one
\* synchronous call.
FairSpec == Spec /\ WF_vars(Script)


\* ------------------------------------------------- the path join on its own
\* The blob locator (lines 5-8) run on every project root of at most
\* MaxRootLen characters over Alphabet.
JoinInit ==
  /\ pc = "subst"
  /\ PROJECT_DIR \in AllRoots
  /\ LINKFLAGS = <<>>
  /\ BUILD_FLAGS = <<>>
  /\ project_dir = Unbound
  /\ wasm_file = Unbound
  /\ stdout = <<>>
  /\ fs = {}
  /\ fsops = <<>>
  /\ hist = <<[root |-> PROJECT_DIR, found |-> FALSE, link |-> <<>>, build |-> <<>>]>>

Locate ==
  \/ Subst
  \/ JoinPath

JoinSpec == JoinInit /\ [][Locate]_vars

\* ------------------------------------------------------------------ claims
\* The run has reached the end of the script.
AtEnd == pc = "done"

\* <project_root>/pigeonhub_client.wasm exists.
Present == ArtifactOf(PROJECT_DIR) \in fs

\* The record of the run before the current one.
Prev == hist[Len(hist) - 1]

Last(s) == s[Len(s)]

\* C1: when <project_root>/pigeonhub_client.wasm exists, a run appends to the
\* linker flags exactly the two entries "-Wl,--embedded-file", "-Wl,<path>" and
\* to the compile flags exactly the one entry -DWASM_BINARY_PATH=\"<path>\",
\* whatever the collections held before.
C1_FoundAppendsPairAndDefine ==
  (AtEnd /\ Present) =>
    /\ LINKFLAGS = Cur.link \o << <<"-Wl,--embedded-file">>, <<"-Wl,">> \o wasm_file >>
    /\ BUILD_FLAGS = Cur.build
         \o << <<"-DWASM_BINARY_PATH=", "\\\"">> \o wasm_file \o <<"\\\"">> >>

C1_Witness ==
  /\ AtEnd
  /\ Present
  /\ Cur.link # <<>>
  /\ Cur.build # <<>>
  /\ Len(LINKFLAGS) = Len(Cur.link) + 2
  /\ Len(BUILD_FLAGS) = Len(Cur.build) + 1

\* C2: when <project_root>/pigeonhub_client.wasm does not exist, both flag
\* collections are, at every point of the run and at its end, exactly what they
\* were when the run began.
C2_MissingLeavesFlags ==
  (pc # "idle" /\ ~Present) =>
    /\ LINKFLAGS = Cur.link
    /\ BUILD_FLAGS = Cur.build

C2_Witness ==
  /\ AtEnd
  /\ ~Present
  /\ LINKFLAGS # <<>>
  /\ BUILD_FLAGS # <<>>

\* C3: the script never raises, and every run that starts reaches the end of
\* the script, the run that finds no file included.
C3_AlwaysReturns ==
  /\ [](pc # "raised")
  /\ (pc = "subst") ~> (pc = "done")

C3_Witness ==
  /\ AtEnd
  /\ ~Present
  /\ ~Cur.found
  /\ Len(stdout) = 2

\* C4: for every non-empty project root, with or without a trailing separator,
\* the resolved path is the root, then a separator unless the root already ends
\* with one, then the unchanged file name; it names <root>/pigeonhub_client.wasm.
C4_JoinIsRootSepName ==
  (pc = "test") =>
    LET n == Len(PROJECT_DIR) IN
    /\ Len(wasm_file) = (IF PROJECT_DIR[n] = "/" THEN n + 1 ELSE n + 2)
    /\ SubSeq(wasm_file, 1, n) = PROJECT_DIR
    /\ wasm_file[Len(wasm_file) - 1] = "/"
    /\ Last(wasm_file) = "pigeonhub_client.wasm"
    /\ Normalize(wasm_file) = ArtifactOf(PROJECT_DIR)

C4_Witness ==
  /\ pc = "test"
  /\ Len(PROJECT_DIR) > 1
  /\ Last(PROJECT_DIR) = "/"
  /\ wasm_file = PROJECT_DIR \o <<"pigeonhub_client.wasm">>

\* C5: two runs in a row with the same project root that both find the file
\* leave the linker pair appended twice and the define appended twice: the
\* second run adds its entries again.
C5_NoDeduplication ==
  (AtEnd /\ Len(hist) >= 2 /\ Prev.root = Cur.root /\ Prev.found /\ Cur.found) =>
    LET pair == << <<"-Wl,--embedded-file">>, <<"-Wl,">> \o wasm_file >>
        define == << <<"-DWASM_BINARY_PATH=", "\\\"">> \o wasm_file \o <<"\\\"">> >>
    IN  /\ LINKFLAGS = Prev.link \o pair \o pair
        /\ BUILD_FLAGS = Prev.build \o define \o define
        /\ LINKFLAGS # Cur.link
        /\ BUILD_FLAGS # Cur.build

C5_Witness ==
  /\ AtEnd
  /\ Len(hist) >= 2
  /\ Prev.root = Cur.root
  /\ Prev.found
  /\ Cur.found
  /\ Len(LINKFLAGS) = Len(Prev.link) + 4

\* C6: no step of a run changes the file system, and the only file-system call
\* a run makes is the existence query on <project_root>/pigeonhub_client.wasm.
C6_FilesystemUntouched ==
  [][ (pc # "idle" \/ pc' # "idle") =>
        /\ fs' = fs
        /\ \A i \in DOMAIN fsops' :
             /\ fsops'[i].op = "stat"
             /\ Normalize(fsops'[i].path) = ArtifactOf(PROJECT_DIR') ]_vars

C6_Witness ==
  /\ AtEnd
  /\ Len(fsops) = 1
  /\ fsops[1].op = "stat"
  /\ Present

\* C7: a finished run has printed either the one line "Embedding WASM binary:
\* <path>" (file present) or the two lines "WARNING: WASM file not found at
\* <path>" and "PigeonHub will compile but WASM functionality will not work!",
\* in this order (file absent), and nothing else.
C7_OneOfTwoLogShapes ==
  AtEnd =>
    IF Present
    THEN stdout = << <<"Embedding WASM binary: ">> \o wasm_file >>
    ELSE stdout =
           << <<"WARNING: WASM file not found at ">> \o wasm_file,
              <<"PigeonHub will compile but WASM functionality will not work!">> >>

C7_Witness ==
  /\ AtEnd
  /\ ~Present
  /\ Len(stdout) = 2
  /\ Len(hist) = 2
  /\ hist[1].found

\* C8: on the file-present branch the flags the collections held when the run
\* began are still there, in order, as a prefix, and the new entries are last:
\* the embed directive, then the path argument, end the linker flags.
C8_AppendOnly ==
  (AtEnd /\ Cur.found) =>
    LET nl == Len(LINKFLAGS)
        nb == Len(BUILD_FLAGS)
    IN  /\ nl >= Len(Cur.link) + 2
        /\ nb >= Len(Cur.build) + 1
        /\ SubSeq(LINKFLAGS, 1, Len(Cur.link)) = Cur.link
        /\ SubSeq(BUILD_FLAGS, 1, Len(Cur.build)) = Cur.build
        /\ LINKFLAGS[nl - 1] = <<"-Wl,--embedded-file">>
        /\ LINKFLAGS[nl] = <<"-Wl,">> \o wasm_file
        /\ BUILD_FLAGS[nb][1] = "-DWASM_BINARY_PATH="

C8_Witness ==
  /\ AtEnd
  /\ Cur.found
  /\ Len(Cur.link) = 1
  /\ Len(Cur.build) = 1
  /\ LINKFLAGS[1] = Cur.link[1]

\* C9: between runs and at the end of a run, the number of linker flags added
\* since construction is twice the number of compile flags added, the latter
\* is the number of runs that found the file, and so both are zero when no run
\* found it.
C9_ChangedTogether ==
  (pc \in {"idle", "done"} /\ hist # <<>>) =>
    LET addedLink == Len(LINKFLAGS) - Len(hist[1].link)
        addedBuild == Len(BUILD_FLAGS) - Len(hist[1].build)
        nFound == Cardinality({i \in DOMAIN hist : hist[i].found})
    IN  /\ Len(LINKFLAGS) >= Len(hist[1].link)
        /\ Len(BUILD_FLAGS) >= Len(hist[1].build)
        /\ addedLink = 2 * addedBuild
        /\ addedBuild = nFound
        /\ (nFound = 0 => addedLink = 0 /\ addedBuild = 0)

C9_Witness ==
  /\ AtEnd
  /\ Len(hist) = 2
  /\ hist[1].found
  /\ ~hist[2].found
  /\ Len(LINKFLAGS) = Len(hist[1].link) + 2

\* C10: within a run the path tested, the path in the log, the path in the
\* "-Wl,<path>" flag and the path in the define are one string, made from the
\* project root of this run and not of an earlier one.
C10_OnePathPerRun ==
  (pc \in {"print", "link", "build", "warn", "warn2", "done"}) =>
    /\ Len(fsops) = 1
    /\ fsops[1].path = wasm_file
    /\ \A i \in DOMAIN stdout : Len(stdout[i]) > 1 => Tail(stdout[i]) = wasm_file
    /\ (pc \in {"warn2", "done"}) => Len(stdout) >= 1 /\ Tail(stdout[1]) = wasm_file
    /\ (AtEnd /\ Cur.found) =>
         /\ Tail(Last(LINKFLAGS)) = wasm_file
         /\ SubSeq(Last(BUILD_FLAGS), 3, Len(Last(BUILD_FLAGS)) - 1) = wasm_file
    /\ Cur.root = PROJECT_DIR
    /\ SubSeq(wasm_file, 1, Len(PROJECT_DIR)) = PROJECT_DIR
    /\ Last(wasm_file) = "pigeonhub_client.wasm"
    /\ Normalize(wasm_file) = ArtifactOf(PROJECT_DIR)

C10_Witness ==
  /\ AtEnd
  /\ Len(hist) = 2
  /\ hist[1].root # hist[2].root
  /\ ArtifactOf(hist[1].root) # ArtifactOf(hist[2].root)
  /\ hist[1].found
  /\ hist[2].found

=============================================================================
